---- MODULE Spec2Model ----
(***************************************************************************)
(* A model of pyresto.core (src/pyresto/core.py): Model instances, their   *)
(* key/footprint resolution, the attribute-miss fetch protocol, change     *)
(* tracking with PATCH/PUT/DELETE, the Many and Foreign relation           *)
(* descriptors with their per-owner caches, and the eager and lazy         *)
(* pagination of _rest_call / LazyList.                                    *)
(*                                                                         *)
(* The transport (requests.request) and the server are the environment:    *)
(* every handler draws the server's answers from small sets.  A resource   *)
(* endpoint answers all the requests of one handler the same way; the      *)
(* pages of a collection endpoint are fixed the first time they are        *)
(* requested (variable served).                                            *)
(*                                                                         *)
(* Python values: an absent dict key and Python's None are both written    *)
(* 0; field values are 1..2.  A nested mapping {"id": v} stored under a    *)
(* relation's key property is written v.                                   *)
(***************************************************************************)
EXTENDS Integers, Sequences, FiniteSets, TLC

\* ------------------------------------------------------------- bounds
MaxInst == 3        \* Model instances alive in one behaviour
MaxColl == 2        \* WrappedList / LazyList objects alive in one behaviour
MaxNesting == 2     \* nested __getattr__ activations the interpreter stack allows
MaxPages == 2       \* pages a collection endpoint serves at most
MaxIter == 2        \* generators started over lazy collections
MaxOwners == 1      \* instances a program constructs or reads itself
MaxPosts == 2       \* owners of the relation runs

\* ------------------------------------------------------------- schema
\* The model types of the checked application (subclasses of Model); Draft
\* is a subclass of Post that declares nothing of its own.
Classes == {"Post", "Draft", "Comment", "Reply", "Author"}

\* isinstance(obj, of), for an object of type cls
IsInstance(cls, of) == cls = of \/ (cls = "Draft" /\ of = "Post")

\* Model._pk of each type, normalised to a tuple by ModelBase.__new__.
PkOf(cls) ==
    IF IsInstance(cls, "Post") THEN <<"id">>
    ELSE IF cls = "Reply" THEN <<"post", "comment", "id">>
    ELSE <<"post", "id">>

\* Model._path of each type, written as the name of the type that owns the
\* path: ModelBase.__new__ derives a path from the type's name unless one is
\* defined, and a subclass inherits the one of its base.
PathOf(cls) == IF cls = "Draft" THEN "Post" ELSE cls

\* Keys an instance __dict__ or a server payload may carry.
DictNames == {"id", "name", "author", "__author"}

\* Field values.
Vals == {1, 2}

\* A key that is not in a dict; Python's None in a key tuple.
Absent == 0

\* The relation descriptors declared on the types:
\*   Post.comments = Many(Comment, '/posts/{id}/comments')
\*   Post.feed     = Many(Comment, '/posts/{id}/feed', lazy=True)
\*   Post.replies  = Many(Reply, '/posts/{id}/replies')
\*   Post.author   = Foreign(Author, embedded=True)       (key property '__author')
\*   Post.editor   = Foreign(Author, key_property='name')
ManyRels == {"comments", "feed", "replies"}
ForeignRels == {"author", "editor"}
RelLazy(rel) == rel = "feed"
RelEmbedded(rel) == rel = "author"
RelModel(rel) ==
    IF rel = "replies" THEN "Reply"
    ELSE IF rel \in ManyRels THEN "Comment"
    ELSE "Author"
RelKeyProperty(rel) == IF rel = "author" THEN "__author" ELSE "name"

\* set(cls.__dict__) & set(data), restricted to the items for which
\* issubclass(getattr(cls, item), Model) holds: the relation names.
Overlaps(cls, data) ==
    IF IsInstance(cls, "Post") THEN {n \in {"author"} : data[n] # Absent} ELSE {}

\* ------------------------------------------------------------- values
Dict(id, name, author) ==
    [n \in DictNames |-> IF n = "id" THEN id
                         ELSE IF n = "name" THEN name
                         ELSE IF n = "author" THEN author
                         ELSE Absent]

EmptyDict == Dict(Absent, Absent, Absent)

\* What a resource endpoint may answer: a non-2xx status, a 2xx status with an
\* empty body (response.text == ''), or a 2xx status with a JSON object.
Failure == [ok |-> FALSE, nobody |-> TRUE, body |-> EmptyDict]
NoBody == [ok |-> TRUE, nobody |-> TRUE, body |-> EmptyDict]
Body(b) == [ok |-> TRUE, nobody |-> FALSE, body |-> b]

\* The answers of the resource endpoint of a type without relation data, and
\* with the nested mapping of the embedded relation.
PlainResponses == {Failure, NoBody, Body(Dict(2, 1, Absent))}
RelBody == Body(Dict(1, Absent, 1))
RelResponses == {Failure, NoBody, RelBody}

\* dict.update(data)
Update(d, data) == [n \in DictNames |-> IF data[n] # Absent THEN data[n] ELSE d[n]]

\* self.__dict__['__' + item] = self.__dict__.pop(item), for item in overlaps
Reroute(cls, d, data) ==
    [n \in DictNames |->
        IF n = "__author" /\ "author" \in Overlaps(cls, data) THEN d["author"]
        ELSE IF n \in Overlaps(cls, data) THEN Absent
        ELSE d[n]]

Last(s) == s[Len(s)]

\* s[:n]
Slice(s, n) == SubSeq(s, 1, IF n < Len(s) THEN n ELSE Len(s))

\* (None,) * n
Nones(n) == [k \in 1..n |-> Absent]

\* zip(a, b), keeping b's entries: as long as the shorter of the two
Zip(a, b) == Slice(b, Len(a))

\* ------------------------------------------------------------- state
VARIABLES
    inst,       \* the Model instances: 1..Len(inst), each a record (see NewInstance)
    colls,      \* the WrappedList / LazyList objects: 1..Len(colls)
    manyCache,  \* Many.__cache of each Many descriptor: owner -> collection
    foreignCache, \* Foreign.__cache of each Foreign descriptor: owner -> value
    served,     \* the pages the collection endpoints have served so far
    iters,      \* the generators LazyList.__iter__ has returned
    typeAuth,   \* Model._auth of the application's base model (0: None)
    firstGot,   \* history: what the first returning access of a relation gave
    last        \* history: the last handler that ran, its requests and outcome

vars == <<inst, colls, manyCache, foreignCache, served, iters, typeAuth, firstGot,
          last>>

\* Model.__init__(**kwargs): the instance __dict__ after construction.
\* d: the data keys of __dict__; changed: _changed; fetched: _fetched;
\* pk: __pk_vals (<<>> while None); fp: the key values of __footprint (<<>>
\* while None); owner: _pyresto_owner (0 while the attribute is not set);
\* auth: the instance's own _auth (<<>> while only the class attribute exists).
NewInstance(cls, kwargs) ==
    [cls |-> cls,
     d |-> Reroute(cls, Update(EmptyDict, kwargs), kwargs),
     changed |-> {},
     fetched |-> FALSE,
     pk |-> <<>>,
     fp |-> <<>>,
     owner |-> 0,
     auth |-> <<>>]

\* instance._auth: the instance __dict__ first, then the class attribute.
InstAuth(rec) == IF rec.auth # <<>> THEN rec.auth[1] ELSE typeAuth

\* A request handed to requests.request: the method, the url (a path, the key
\* values formatted into it, the page a continuation reference points to),
\* the auth object (0: None) and the data sent (the keys of the payload that
\* are present).
Request(method, path, key, page, auth, data) ==
    [method |-> method, url |-> [path |-> path, key |-> key, page |-> page],
     auth |-> auth, data |-> data]

\* The result of a Python-level call: the heap after it, the value returned
\* (ret), and the exception raised ("" when none).
Ok(h, ret) == [h |-> h, ret |-> ret, err |-> ""]
Raise(h, err) == [h |-> h, ret |-> <<>>, err |-> err]

\* Model._path.format(**footprint): every key field is a placeholder.
FormatPath(cls, fp) ==
    IF Len(fp) = Len(PkOf(cls)) THEN fp ELSE <<>>

\* ------------------------------------------------- attribute protocol
\* h is [inst, reqs]; i an instance; r the resource endpoint's answer; depth
\* the number of __getattr__ activations on the stack.
RECURSIVE GetAttrMiss(_, _, _, _, _)
RECURSIVE GetAttr(_, _, _, _, _)
RECURSIVE PkVals(_, _, _, _)

\* getattr(self, name) for a name that is no class attribute: the instance
\* __dict__ first, Model.__getattr__ when the key is missing.
GetAttr(h, i, name, r, depth) ==
    IF name \in DictNames /\ h.inst[i].d[name] # Absent
    THEN Ok(h, <<h.inst[i].d[name]>>)
    ELSE GetAttrMiss(h, i, name, r, depth)

\* The merge of Model.__fetch: update, re-route the relation names, _fetched.
Merged(rec, data) ==
    [rec EXCEPT !.d = Reroute(rec.cls, Update(rec.d, data), data),
                !.fetched = TRUE]

\* Model.__fetch, once the request was made: a non-2xx status raises, a falsy
\* body leaves the instance as it is (and _fetched False), else the merge.
Received(h, i, r) ==
    IF ~r.ok THEN Raise(h, "ServerResponseError")
    ELSE IF r.nobody THEN Ok(h, <<>>)
    ELSE Ok([h EXCEPT !.inst[i] = Merged(@, r.body)], <<>>)

\* Model.__fetch, once _current_path was evaluated (p): one GET of the path.
Requested(p, i, r) ==
    IF p.err # "" THEN p
    ELSE Received([p.h EXCEPT !.reqs =
                      Append(@, Request("GET", PathOf(p.h.inst[i].cls), p.ret, 0,
                                         InstAuth(p.h.inst[i]), EmptyDict))],
                  i, r)

\* Model._current_path, once _footprint was evaluated (f)
Formatted(f, i) ==
    IF f.err # "" THEN f
    ELSE IF FormatPath(f.h.inst[i].cls, f.ret) = <<>> THEN Raise(f.h, "KeyError")
    ELSE Ok(f.h, FormatPath(f.h.inst[i].cls, f.ret))

\* Model._footprint, once _pk_vals was evaluated (pv): the memo is set.
Memoised(pv, i) ==
    IF pv.err # "" THEN pv
    ELSE Ok([pv.h EXCEPT !.inst[i].fp = Zip(PkOf(pv.h.inst[i].cls), pv.ret)],
            Zip(PkOf(pv.h.inst[i].cls), pv.ret))

\* Model._footprint
FootprintOf(h, i, r, depth) ==
    IF h.inst[i].fp # <<>> THEN Ok(h, h.inst[i].fp)
    ELSE Memoised(PkVals(h, i, r, depth), i)

\* Model._current_path
CurrentPath(h, i, r, depth) == Formatted(FootprintOf(h, i, r, depth), i)

\* Model.__fetch
Fetch(h, i, r, depth) == Requested(CurrentPath(h, i, r, depth), i, r)

\* Model.__getattr__, once __fetch was called (f): try again.
Retried(f, i, name, r, depth) ==
    IF f.err # "" THEN f ELSE GetAttr(f.h, i, name, r, depth)

\* Model.__getattr__: raise when fetched, else fetch and try again.  Past the
\* interpreter's recursion limit the call raises RuntimeError.
GetAttrMiss(h, i, name, r, depth) ==
    IF depth >= MaxNesting THEN Raise(h, "RuntimeError")
    ELSE IF h.inst[i].fetched THEN Raise(h, "AttributeError")
    ELSE Retried(Fetch(h, i, r, depth + 1), i, name, r, depth + 1)

\* hasattr(self, '_pyresto_owner'): Python 2's hasattr runs getattr and
\* answers False on any exception; the missing attribute goes through
\* Model.__getattr__.
HasOwner(h, i, r, depth) ==
    IF h.inst[i].owner # 0 THEN Ok(h, <<TRUE>>)
    ELSE Ok(GetAttrMiss(h, i, "_pyresto_owner", r, depth).h, <<FALSE>>)

\* Model._id
Id(h, i, r, depth) ==
    IF h.inst[i].pk # <<>> THEN Ok(h, <<Last(h.inst[i].pk)>>)
    ELSE GetAttr(h, i, Last(PkOf(h.inst[i].cls)), r, depth)

\* self.__pk_vals = prefix + (self._id,), once _id was evaluated (me)
Assigned(me, i, prefix) ==
    IF me.err # "" THEN me
    ELSE Ok([me.h EXCEPT !.inst[i].pk = prefix \o me.ret], prefix \o me.ret)

\* The branch of Model._pk_vals for an instance with an owner, once the
\* owner's _pk_vals was evaluated (o).
Inherited(o, i, r, depth) ==
    IF o.err # "" THEN Raise(o.h, o.err)
    ELSE Assigned(Id(o.h, i, r, depth), i,
                  Slice(o.ret, Len(PkOf(o.h.inst[i].cls)) - 1))

\* Model._pk_vals past the test of __pk_vals, once hasattr was evaluated (ho).
Computed(ho, i, r, depth) ==
    IF ho.ret[1]
    THEN Inherited(PkVals(ho.h, ho.h.inst[i].owner, r, depth), i, r, depth)
    ELSE Assigned(Id(ho.h, i, r, depth), i, Nones(Len(PkOf(ho.h.inst[i].cls)) - 1))

\* Key values that take nothing from the owner.
PkValsAlone(h, i, r, depth) ==
    IF h.inst[i].pk # <<>> THEN Ok(h, h.inst[i].pk)
    ELSE Assigned(Id(h, i, r, depth), i, Nones(Len(PkOf(h.inst[i].cls)) - 1))

\* Key values computed again from the key field on every read.
PkValsFresh(h, i, r, depth) ==
    Assigned(GetAttr(h, i, Last(PkOf(h.inst[i].cls)), r, depth), i,
             Nones(Len(PkOf(h.inst[i].cls)) - 1))

\* Model._pk_vals (getter): the test of __pk_vals comes before hasattr, the
\* assignment after it.
PkVals(h, i, r, depth) ==
    IF h.inst[i].pk # <<>> THEN Ok(h, h.inst[i].pk)
    ELSE Computed(HasOwner(h, i, r, depth), i, r, depth)

\* ------------------------------------------------------------- history
\* The heap a handler starts from.
Heap == [inst |-> inst, reqs |-> <<>>]

Instances == 1..Len(inst)

NoLast ==
    [op |-> "none", i |-> 0, name |-> "", err |-> "", reqs |-> <<>>, ret |-> 0,
     keys |-> <<>>, before |-> {}]

\* The record of a handler that ran on instance i: the exception it raised,
\* the requests it made, the object or value it returned (0: none) and, for
\* a read of the key values, the tuple returned; before is the instance's
\* _changed when the handler started.
Ran(op, i, name, err, reqs, ret) ==
    [op |-> op, i |-> i, name |-> name, err |-> err, reqs |-> reqs, ret |-> ret,
     keys |-> <<>>, before |-> IF i \in Instances THEN inst[i].changed ELSE {}]

Unrelated == <<colls, manyCache, foreignCache, served, iters, typeAuth, firstGot>>

\* ------------------------------------------------------------- handlers
\* cls(**kwargs), called by the application.
New(cls, kwargs) ==
    /\ Len(inst) < MaxInst
    /\ inst' = Append(inst, NewInstance(cls, kwargs))
    /\ last' = Ran("new", Len(inst) + 1, "", "", <<>>, Len(inst) + 1)
    /\ UNCHANGED Unrelated

\* A setter that takes a tuple of any length.
SetPkValsAny(rec, value) == [rec |-> [rec EXCEPT !.pk = value], err |-> ""]

\* Model._pk_vals (setter): the instance after the assignment and the
\* exception raised; a tuple of another length than _pk raises ValueError.
SetPkVals(rec, value) ==
    IF Len(value) = Len(PkOf(rec.cls))
    THEN [rec |-> [rec EXCEPT !.pk = value], err |-> ""]
    ELSE [rec |-> rec, err |-> "ValueError"]

\* instance._pk_vals = value, assigned by the application
WritePkVals(i, value) ==
    /\ inst' = [inst EXCEPT ![i] = SetPkVals(@, value).rec]
    /\ last' = [Ran("setkeys", i, "", SetPkVals(inst[i], value).err, <<>>, 0) EXCEPT
                    !.keys = value]
    /\ UNCHANGED Unrelated

\* auth = kwargs.pop('auth', cls._auth): the call-site value (0: not given),
\* else the class attribute.
ReadAuth(auth) == IF auth # 0 THEN auth ELSE typeAuth

\* An instance built from the response whose key values are left to be
\* computed from its data.
ReadInstanceByData(cls, args, auth, data) ==
    [NewInstance(cls, data) EXCEPT
        !.fetched = TRUE, !.auth = IF auth # 0 THEN <<auth>> ELSE @]

\* The instance Model.read returns: cls(**data) with the key arguments as its
\* _pk_vals, _fetched set and, when auth is truthy, its _auth.
ReadInstance(cls, args, auth, data) ==
    [SetPkVals(NewInstance(cls, data), args).rec EXCEPT
        !.fetched = TRUE, !.auth = IF auth # 0 THEN <<auth>> ELSE @]

\* Model.read(*args, auth=auth): the path is formatted from
\* dict(zip(cls._pk, args)) (KeyError when a key field has no argument), then
\* one GET; None for an empty body; else the instance is built and the
\* assignment of its _pk_vals raises ValueError for surplus arguments.
Read(cls, args, auth, r) ==
    /\ Len(inst) < MaxInst
    /\ LET ids == Zip(PkOf(cls), args)
           req == <<Request("GET", PathOf(cls), ids, 0, ReadAuth(auth), EmptyDict)>>
       IN IF FormatPath(cls, ids) = <<>>
          THEN /\ inst' = inst
               /\ last' = Ran("read", 0, "", "KeyError", <<>>, 0)
          ELSE IF ~r.ok
          THEN /\ inst' = inst
               /\ last' = Ran("read", 0, "", "ServerResponseError", req, 0)
          ELSE IF r.nobody
          THEN /\ inst' = inst
               /\ last' = Ran("read", 0, "", "", req, 0)
          ELSE IF SetPkVals(NewInstance(cls, r.body), args).err # ""
          THEN /\ inst' = inst
               /\ last' = Ran("read", 0, "", SetPkVals(NewInstance(cls, r.body), args).err,
                              req, 0)
          ELSE /\ inst' = Append(inst, ReadInstance(cls, args, ReadAuth(auth), r.body))
               /\ last' = Ran("read", Len(inst) + 1, "", "", req, Len(inst) + 1)
    /\ UNCHANGED Unrelated

\* The value of a one-element result, 0 when the call raised.
Value(res) == IF res.err = "" THEN res.ret[1] ELSE 0

\* instance.<name>, for a data field
ReadAttr(i, name, r) ==
    /\ LET res == GetAttr(Heap, i, name, r, 0)
       IN /\ inst' = res.h.inst
          /\ last' = Ran("getattr", i, name, res.err, res.h.reqs, Value(res))
    /\ UNCHANGED Unrelated

\* key.startswith('_')
IsPrivate(name) == name = "__author"

\* A write that tracks every name.
SetAttrTracked(rec, key, value) ==
    [rec EXCEPT !.changed = @ \cup {key}, !.d[key] = value]

\* Model.__setattr__(key, value)
SetAttr(rec, key, value) ==
    [rec EXCEPT !.changed = IF IsPrivate(key) THEN @ ELSE @ \cup {key},
                !.d[key] = value]

\* instance.<key> = value
WriteAttr(i, key, value) ==
    /\ inst' = [inst EXCEPT ![i] = SetAttr(@, key, value)]
    /\ last' = Ran("setattr", i, key, "", <<>>, value)
    /\ UNCHANGED Unrelated

\* instance._pk_vals or instance._footprint, read by the application
ReadKey(i, which, r) ==
    /\ LET res == IF which = "_pk_vals" THEN PkVals(Heap, i, r, 0)
                  ELSE FootprintOf(Heap, i, r, 0)
       IN /\ inst' = res.h.inst
          /\ last' = [Ran(which, i, "", res.err, res.h.reqs, 0) EXCEPT
                          !.keys = res.ret]
    /\ UNCHANGED Unrelated

\* normalize_auth: the call-site value (0: None, or not given), else
\* cls._auth or instance._auth.
NormalizeAuth(auth, rec) ==
    IF auth # 0 THEN auth ELSE IF typeAuth # 0 THEN typeAuth ELSE InstAuth(rec)

\* The keys update_with_patch submits: keys &= instance._changed when keys is
\* truthy, else instance._changed itself.  given is FALSE for keys=None.
PatchKeys(given, keys, changed) ==
    IF given /\ keys # {} THEN keys \cap changed ELSE changed

\* dict((key, instance.__dict__[key]) for key in keys)
Payload(d, keys) == [n \in DictNames |-> IF n \in keys THEN d[n] ELSE Absent]

\* A PATCH that forgets every change, submitted or not.
PatchClears(changed, keys) == {}

\* instance._changed -= keys
PatchRemaining(changed, keys) == changed \ keys

\* Model.update_with_patch(instance, keys, auth): the payload is built from
\* __dict__ first (KeyError for a changed key that is no longer there), then
\* the path, then one PATCH; the response is merged by dict.update (a None
\* response raises TypeError) and the submitted keys leave _changed.  The
\* history names a call that was given a subset "keys".  g is the answer
\* the resource gives a GET while the path is computed, r its answer to the
\* PATCH.
PatchAnswered(i, given, keys, auth, g, r) ==
    /\ LET K == PatchKeys(given, keys, inst[i].changed)
           p == CurrentPath(Heap, i, g, 0)
           reqs == Append(p.h.reqs,
                          Request("PATCH", PathOf(inst[i].cls), p.ret, 0,
                                  NormalizeAuth(auth, inst[i]), Payload(inst[i].d, K)))
       IN IF \E k \in K : inst[i].d[k] = Absent
          THEN /\ inst' = inst
               /\ last' = Ran("patch", i, IF given THEN "keys" ELSE "", "KeyError", <<>>, 0)
          ELSE IF p.err # ""
          THEN /\ inst' = p.h.inst
               /\ last' = Ran("patch", i, IF given THEN "keys" ELSE "", p.err, p.h.reqs, 0)
          ELSE IF ~r.ok
          THEN /\ inst' = p.h.inst
               /\ last' = Ran("patch", i, IF given THEN "keys" ELSE "", "ServerResponseError", reqs, 0)
          ELSE IF r.nobody
          THEN /\ inst' = p.h.inst
               /\ last' = Ran("patch", i, IF given THEN "keys" ELSE "", "TypeError", reqs, 0)
          ELSE /\ inst' = [p.h.inst EXCEPT
                              ![i].d = Update(@, r.body),
                              ![i].changed = PatchRemaining(@, K)]
               /\ last' = Ran("patch", i, IF given THEN "keys" ELSE "", "", reqs, i)
    /\ UNCHANGED Unrelated

\* update_with_patch on a resource that answers every method alike.
Patch(i, given, keys, auth, r) == PatchAnswered(i, given, keys, auth, r, r)

\* A PUT that forgets no change.
PutKeeps(changed) == changed

\* instance._changed.clear()
PutRemaining(changed) == {}

\* Model.update_with_put(instance, auth): a copy of the whole __dict__, the path,
\* then the copy serialised (json.dumps raises TypeError on the _changed set; a type may
\* supply its own _serializer: ser tells whether serialising succeeds), then
\* one PUT; the response is merged and _changed cleared.  g is the answer the
\* resource gives a GET while the path is computed, r its answer to the PUT.
PutAnswered(i, ser, auth, g, r) ==
    /\ LET p == CurrentPath(Heap, i, g, 0)
           reqs == Append(p.h.reqs, Request("PUT", PathOf(inst[i].cls), p.ret, 0,
                                            NormalizeAuth(auth, inst[i]), inst[i].d))
       IN IF p.err # ""
          THEN /\ inst' = p.h.inst
               /\ last' = Ran("put", i, "", p.err, p.h.reqs, 0)
          ELSE IF ~ser
          THEN /\ inst' = p.h.inst
               /\ last' = Ran("put", i, "", "TypeError", p.h.reqs, 0)
          ELSE IF ~r.ok
          THEN /\ inst' = p.h.inst
               /\ last' = Ran("put", i, "", "ServerResponseError", reqs, 0)
          ELSE IF r.nobody
          THEN /\ inst' = p.h.inst
               /\ last' = Ran("put", i, "", "TypeError", reqs, 0)
          ELSE /\ inst' = [p.h.inst EXCEPT
                              ![i].d = Update(@, r.body),
                              ![i].changed = PutRemaining(@)]
               /\ last' = Ran("put", i, "", "", reqs, i)
    /\ UNCHANGED Unrelated

\* update_with_put on a resource that answers every method alike.
Put(i, ser, auth, r) == PutAnswered(i, ser, auth, r, r)

\* Model.delete(instance, auth): the path, then one DELETE; nothing is returned.
Delete(i, auth, r) ==
    /\ LET p == CurrentPath(Heap, i, r, 0)
           reqs == Append(p.h.reqs, Request("DELETE", PathOf(inst[i].cls), p.ret, 0,
                                            NormalizeAuth(auth, inst[i]), EmptyDict))
       IN /\ inst' = p.h.inst
          /\ last' = IF p.err # "" THEN Ran("delete", i, "", p.err, p.h.reqs, 0)
                     ELSE IF ~r.ok
                     THEN Ran("delete", i, "", "ServerResponseError", reqs, 0)
                     ELSE Ran("delete", i, "", "", reqs, 0)
    /\ UNCHANGED Unrelated

\* Model.__eq__, once both _id were evaluated (x: self._id, y: other._id)
EqCompared(x, y) ==
    IF y.err # "" THEN y ELSE Ok(y.h, <<x.ret[1] = y.ret[1]>>)

\* Model.__eq__, once self._id was evaluated (x)
EqOther(x, b, rb) ==
    IF x.err # "" THEN x ELSE EqCompared(x, Id(x.h, b, rb, 0))

\* An equality that compares the key values of any two instances.
EqAnyType(h, a, b, ra, rb) == EqOther(Id(h, a, ra, 0), b, rb)

\* Model.__eq__(self, other), self being a and other b:
\* isinstance(other, self.__class__) and self._id == other._id
EqMethod(h, a, b, ra, rb) ==
    IF ~IsInstance(h.inst[b].cls, h.inst[a].cls) THEN Ok(h, <<FALSE>>)
    ELSE EqOther(Id(h, a, ra, 0), b, rb)

\* a == b: when the type of b is a proper subclass of the type of a, Python
\* calls b.__eq__(a) first, and __eq__ never answers NotImplemented.
Equals(h, a, b, ra, rb) ==
    IF h.inst[a].cls # h.inst[b].cls /\ IsInstance(h.inst[b].cls, h.inst[a].cls)
    THEN EqMethod(h, b, a, rb, ra)
    ELSE EqMethod(h, a, b, ra, rb)

\* a == b, evaluated by the application; ra and rb are the answers of the
\* resource endpoints of a and of b.  The history keeps the operands in keys
\* and writes the result 1 for True, 0 for False.
Eq(a, b, ra, rb) ==
    /\ a = b => ra = rb
    /\ inst' = Equals(Heap, a, b, ra, rb).h.inst
    /\ last' = [Ran("eq", a, "", Equals(Heap, a, b, ra, rb).err,
                    Equals(Heap, a, b, ra, rb).h.reqs,
                    IF Equals(Heap, a, b, ra, rb).err = ""
                          /\ Equals(Heap, a, b, ra, rb).ret[1] THEN 1 ELSE 0)
                 EXCEPT !.keys = <<a, b>>]
    /\ UNCHANGED Unrelated

\* The auth objects of the application.
Auths == {1, 2}

\* The function enable_auth returns, called by the application:
\* base_model._auth = None, or an auth object of a supported type.
EnableAuth(a) ==
    /\ typeAuth' = a
    /\ last' = Ran("enable_auth", 0, "", "", <<>>, a)
    /\ UNCHANGED <<inst, colls, manyCache, foreignCache, served, iters, firstGot>>

\* instance._auth = a, assigned by the application: Model.__setattr__ with a
\* private name sets the attribute and tracks nothing.
WriteAuth(i, a) ==
    /\ inst' = [inst EXCEPT ![i].auth = <<a>>]
    /\ last' = Ran("setattr", i, "_auth", "", <<>>, a)
    /\ UNCHANGED Unrelated

\* ------------------------------------------------------------ transport
\* What a collection endpoint may answer for one page: a non-2xx status, or
\* a 2xx status with an empty body or a JSON list of records {"id": v}
\* (written v), with or without a continuation reference (more).  The last
\* page the server has carries no continuation.
PageResponses(n) ==
    {[ok |-> FALSE, nobody |-> TRUE, items |-> <<>>, more |-> FALSE]}
    \cup {[ok |-> TRUE, nobody |-> nb, items |-> IF nb THEN <<>> ELSE <<n>>,
           more |-> m] : nb \in BOOLEAN, m \in {b \in BOOLEAN : b => n < MaxPages}}

\* The answers of one collection endpoint, page by page.
Chains == {c \in [1..MaxPages -> UNION {PageResponses(n) : n \in 1..MaxPages}] :
             \A n \in 1..MaxPages : c[n] \in PageResponses(n)}

PageUrl(rel, key, n) == [path |-> rel, key |-> key, page |-> n]

\* A chain agrees with the pages the endpoint has served before.
Agrees(chain, rel, key) ==
    \A s \in served :
        s.url.path = rel /\ s.url.key = key => chain[s.url.page] = s.resp

\* A call that returns the first page and follows no continuation reference.
RestCallOnePage(chain, rel, key, auth, n) ==
    [reqs |-> <<Request("GET", rel, key, n, auth, EmptyDict)>>,
     none |-> ~chain[n].ok \/ chain[n].nobody,
     items |-> IF chain[n].ok THEN chain[n].items ELSE <<>>,
     err |-> IF chain[n].ok THEN "" ELSE "ServerResponseError"]

\* A call that returns the records gathered so far when a later page fails.
RECURSIVE RestCallPartial(_, _, _, _, _)
RestCallPartial(chain, rel, key, auth, n) ==
    LET req == Request("GET", rel, key, n, auth, EmptyDict)
        rest == RestCallPartial(chain, rel, key, auth, n + 1)
    IN IF ~chain[n].ok
       THEN [reqs |-> <<req>>, none |-> FALSE, items |-> <<>>,
             err |-> IF n = 1 THEN "ServerResponseError" ELSE ""]
       ELSE IF ~chain[n].more
       THEN [reqs |-> <<req>>, none |-> FALSE, items |-> chain[n].items, err |-> ""]
       ELSE [reqs |-> <<req>> \o rest.reqs, none |-> FALSE,
             items |-> chain[n].items \o rest.items, err |-> ""]

\* Model._rest_call(url, fetch_all=True) on page n of a collection: one GET;
\* on a continuation reference the call recurses and appends the rest
\* (data += ...), which raises TypeError when either side is None.
\* The result: the requests made, the data (none: None) and the exception.
RECURSIVE RestCallAll(_, _, _, _, _)
RestCallAll(chain, rel, key, auth, n) ==
    LET req == Request("GET", rel, key, n, auth, EmptyDict)
        resp == chain[n]
        rest == RestCallAll(chain, rel, key, auth, n + 1)
    IN IF ~resp.ok
       THEN [reqs |-> <<req>>, none |-> TRUE, items |-> <<>>,
             err |-> "ServerResponseError"]
       ELSE IF ~resp.more
       THEN [reqs |-> <<req>>, none |-> resp.nobody, items |-> resp.items, err |-> ""]
       ELSE IF rest.err # ""
       THEN [rest EXCEPT !.reqs = <<req>> \o @, !.none = TRUE, !.items = <<>>]
       ELSE IF resp.nobody \/ rest.none
       THEN [reqs |-> <<req>> \o rest.reqs, none |-> TRUE, items |-> <<>>,
             err |-> "TypeError"]
       ELSE [reqs |-> <<req>> \o rest.reqs, none |-> FALSE,
             items |-> resp.items \o rest.items, err |-> ""]

\* The pages a sequence of requests has made the endpoint serve.
Serve(reqs, chain) ==
    served \cup {[url |-> reqs[k].url, resp |-> chain[reqs[k].url.page]] :
                    k \in 1..Len(reqs)}

\* ------------------------------------------------------------ relations
Collections == 1..Len(colls)

\* Many.__sanitize_data, without a preprocessor: [] for falsy data.  The
\* backing store of the WrappedList: the raw records, none wrapped yet (inst 0).
Sanitize(items) == [k \in 1..Len(items) |-> [raw |-> items[k], inst |-> 0]]

\* The slot of a relation cache an owner is looked up in (instance in cache,
\* cache[instance]): Model defines __eq__ and no __hash__, so the dict keys on
\* the object's identity.
CacheSlot(cache, i) == i

\* A relation name the instance __dict__ holds shadows the descriptor (Many
\* and Foreign define __get__ only).
Shadowed(i, rel) == rel \in DictNames /\ inst[i].d[rel] # Absent

\* history: the first object an access of rel on owner i returned
Remember(rel, i, obj) ==
    IF \E g \in firstGot : g.rel = rel /\ g.i = i THEN firstGot
    ELSE firstGot \cup {[rel |-> rel, i |-> i, obj |-> obj]}

\* instance.<rel> for a Many relation: Many.__get__.  A cached collection is
\* returned as it is; else the path is formatted from the owner's footprint
\* and either a LazyList is made (no request) or the whole collection is
\* fetched and wrapped.
ManyGet(i, rel, r, chain) ==
    /\ IsInstance(inst[i].cls, "Post")
    /\ LET slot == CacheSlot(manyCache[rel], i)
           f == FootprintOf(Heap, i, r, 0)
           all == RestCallAll(chain, rel, f.ret, InstAuth(f.h.inst[i]), 1)
           new == Len(colls) + 1
       IN IF manyCache[rel][slot] # 0
          THEN /\ last' = Ran("many", i, rel, "", <<>>, manyCache[rel][slot])
               /\ firstGot' = Remember(rel, i, manyCache[rel][slot])
               /\ UNCHANGED <<inst, colls, manyCache, served>>
          ELSE IF f.err # ""
          THEN /\ inst' = f.h.inst
               /\ last' = Ran("many", i, rel, f.err, f.h.reqs, 0)
               /\ UNCHANGED <<colls, manyCache, served, firstGot>>
          ELSE IF RelLazy(rel)
          THEN /\ Len(colls) < MaxColl
               /\ inst' = f.h.inst
               /\ colls' = Append(colls, [kind |-> "lazy", rel |-> rel, owner |-> i,
                                          key |-> f.ret, items |-> <<>>])
               /\ manyCache' = [manyCache EXCEPT ![rel][slot] = new]
               /\ last' = Ran("many", i, rel, "", f.h.reqs, new)
               /\ firstGot' = Remember(rel, i, new)
               /\ UNCHANGED served
          ELSE /\ Agrees(chain, rel, f.ret)
               /\ inst' = f.h.inst
               /\ served' = Serve(all.reqs, chain)
               /\ IF all.err # ""
                  THEN /\ last' = Ran("many", i, rel, all.err, f.h.reqs \o all.reqs, 0)
                       /\ UNCHANGED <<colls, manyCache, firstGot>>
                  ELSE /\ Len(colls) < MaxColl
                       /\ colls' = Append(colls, [kind |-> "wrapped", rel |-> rel,
                                                  owner |-> i, key |-> f.ret,
                                                  items |-> Sanitize(all.items)])
                       /\ manyCache' = [manyCache EXCEPT ![rel][slot] = new]
                       /\ last' = Ran("many", i, rel, "", f.h.reqs \o all.reqs, new)
                       /\ firstGot' = Remember(rel, i, new)
    /\ UNCHANGED <<foreignCache, iters, typeAuth>>

\* Many._with_owner(owner).mapper(data) for a raw record {"id": v}
Mapper(owner, rel, v) ==
    [NewInstance(RelModel(rel), Dict(v, Absent, Absent)) EXCEPT !.owner = owner]

\* collection[k] on a WrappedList: WrappedList.__getitem__ wraps a raw record
\* and stores the instance in its place.
GetItem(c, k) ==
    /\ colls[c].kind = "wrapped"
    /\ k \in 1..Len(colls[c].items)
    /\ IF colls[c].items[k].inst # 0
       THEN /\ last' = Ran("getitem", colls[c].owner, colls[c].rel, "", <<>>,
                           colls[c].items[k].inst)
            /\ UNCHANGED <<inst, colls>>
       ELSE /\ Len(inst) < MaxInst
            /\ inst' = Append(inst, Mapper(colls[c].owner, colls[c].rel,
                                               colls[c].items[k].raw))
            /\ colls' = [colls EXCEPT ![c].items[k].inst = Len(inst) + 1]
            /\ last' = Ran("getitem", colls[c].owner, colls[c].rel, "", <<>>,
                           Len(inst) + 1)
    /\ UNCHANGED <<manyCache, foreignCache, served, iters, typeAuth, firstGot>>

\* isinstance(it, dict), for an entry of the backing store
IsRaw(it) == it.inst = 0

\* The raw records among the first k entries.
Raws(items, k) == Cardinality({m \in 1..k : IsRaw(items[m])})

\* [self.__wrapper(_) for _ in items], with base instances alive: a raw
\* record becomes a new instance, an instance is returned as it is (mapper).
Wrapped(items, base) ==
    [k \in 1..Len(items) |->
        IF IsRaw(items[k]) THEN [raw |-> items[k].raw, inst |-> base + Raws(items, k)]
        ELSE items[k]]

\* The instances the wrapper makes for the raw records of items, in order.
Made(items, owner, rel) ==
    LET raws == SelectSeq(items, IsRaw)
    IN [k \in 1..Len(raws) |-> Mapper(owner, rel, raws[k].raw)]

\* The instances a sequence of wrapped entries stands for.
Ids(items) == [k \in 1..Len(items) |-> items[k].inst]

\* A bound of s[i:j] as the sequence slots receive it: len(s) is added to
\* a negative bound, once, before __getslice__ or the list's slice
\* assignment is called.
Adjusted(x, len) == IF x < 0 THEN x + len ELSE x

\* The bounds list.__getslice__ and the list's slice assignment work with:
\* clamped into 0..len, the high bound at least the low one.
Low(x, len) == IF x < 0 THEN 0 ELSE IF x > len THEN len ELSE x
High(lo, x, len) == IF x < lo THEN lo ELSE IF x > len THEN len ELSE x

\* collection[i:j] on a WrappedList: WrappedList.__getslice__(i, j), called
\* with the adjusted bounds.  When the slice holds a raw record, every entry
\* of it goes through the wrapper and self[i:j] = items stores the result,
\* the bounds being adjusted again on the way to the list.
GetSlice(c, i, j) ==
    /\ colls[c].kind = "wrapped"
    /\ LET s == colls[c].items
           len == Len(s)
           lo == Low(Adjusted(i, len), len)
           hi == High(lo, Adjusted(j, len), len)
           items == SubSeq(s, lo + 1, hi)
           lo2 == Low(Adjusted(Adjusted(i, len), len), len)
           hi2 == High(lo2, Adjusted(Adjusted(j, len), len), len)
       IN IF \E k \in 1..Len(items) : IsRaw(items[k])
          THEN /\ Len(inst) + Raws(items, Len(items)) <= MaxInst
               /\ inst' = inst \o Made(items, colls[c].owner, colls[c].rel)
               /\ colls' = [colls EXCEPT ![c].items =
                               SubSeq(s, 1, lo2) \o Wrapped(items, Len(inst))
                                  \o SubSeq(s, hi2 + 1, len)]
               /\ last' = [Ran("getslice", colls[c].owner, colls[c].rel, "", <<>>, c)
                              EXCEPT !.keys = Ids(Wrapped(items, Len(inst)))]
          ELSE /\ last' = [Ran("getslice", colls[c].owner, colls[c].rel, "", <<>>, c)
                              EXCEPT !.keys = Ids(items)]
               /\ UNCHANGED <<inst, colls>>
    /\ UNCHANGED <<manyCache, foreignCache, served, iters, typeAuth, firstGot>>

\* list(collection) on a WrappedList: WrappedList.__iter__ returns a generator
\* that passes every entry of the backing store through the wrapper and
\* stores nothing.
IterWrapped(c) ==
    /\ colls[c].kind = "wrapped"
    /\ Len(inst) + Raws(colls[c].items, Len(colls[c].items)) <= MaxInst
    /\ inst' = inst \o Made(colls[c].items, colls[c].owner, colls[c].rel)
    /\ last' = [Ran("iterate", colls[c].owner, colls[c].rel, "", <<>>, c)
                   EXCEPT !.keys = Ids(Wrapped(colls[c].items, Len(inst)))]
    /\ UNCHANGED <<colls, manyCache, foreignCache, served, iters, typeAuth, firstGot>>

\* The instance an embedded Foreign builds from the nested mapping {"id": v}:
\* model(**mapping), then _auth (the owner's, None included) and
\* _pyresto_owner are set.
Embedded(rel, owner, auth, v) ==
    [NewInstance(RelModel(rel), Dict(v, Absent, Absent)) EXCEPT
        !.auth = <<auth>>, !.owner = owner]

\* instance.<rel> for a Foreign relation: the raw value when the instance
\* __dict__ shadows the descriptor (the object held in instance i's __dict__,
\* written -i), else Foreign.__get__.
\* Without embedded data the descriptor calls self.__model.get, which Model
\* does not define: AttributeError, before the key extractor runs.
ForeignGet(i, rel, r) ==
    /\ IsInstance(inst[i].cls, "Post")
    /\ LET slot == CacheSlot(foreignCache[rel], i)
           key == GetAttr(Heap, i, RelKeyProperty(rel), r, 0)
           new == Len(inst) + 1
       IN IF Shadowed(i, rel)
          THEN /\ last' = Ran("foreign", i, rel, "", <<>>, 0 - i)
               /\ firstGot' = Remember(rel, i, 0 - i)
               /\ UNCHANGED <<inst, foreignCache>>
          ELSE IF foreignCache[rel][slot] # 0
          THEN /\ last' = Ran("foreign", i, rel, "", <<>>, foreignCache[rel][slot])
               /\ firstGot' = Remember(rel, i, foreignCache[rel][slot])
               /\ UNCHANGED <<inst, foreignCache>>
          ELSE IF ~RelEmbedded(rel)
          THEN /\ last' = Ran("foreign", i, rel, "AttributeError", <<>>, 0)
               /\ UNCHANGED <<inst, foreignCache, firstGot>>
          ELSE IF key.err # ""
          THEN /\ inst' = key.h.inst
               /\ last' = Ran("foreign", i, rel, key.err, key.h.reqs, 0)
               /\ UNCHANGED <<foreignCache, firstGot>>
          ELSE /\ Len(inst) < MaxInst
               /\ inst' = Append(key.h.inst,
                                 Embedded(rel, i, InstAuth(key.h.inst[i]), key.ret[1]))
               /\ foreignCache' = [foreignCache EXCEPT ![rel][slot] = new]
               /\ last' = Ran("foreign", i, rel, "", key.h.reqs, new)
               /\ firstGot' = Remember(rel, i, new)
    /\ UNCHANGED <<colls, manyCache, served, iters, typeAuth>>

\* ------------------------------------------------------------ lazy lists
Iterators == 1..Len(iters)

\* iter(collection) on a LazyList: a generator that has not run yet.  page is
\* the page its local fetcher is bound to (0: fetcher is None), buf the
\* records of the current page not yet yielded.  got and asked are history:
\* the records yielded and the pages requested so far.
Generator(c) ==
    [coll |-> c, page |-> 1, buf |-> <<>>, state |-> "running",
     got |-> <<>>, asked |-> <<>>]

IterStart(c) ==
    /\ colls[c].kind = "lazy"
    /\ Len(iters) < MaxIter
    /\ iters' = Append(iters, Generator(c))
    /\ last' = Ran("iter", colls[c].owner, colls[c].rel, "", <<>>, Len(iters) + 1)
    /\ UNCHANGED <<inst, colls, manyCache, foreignCache, served, typeAuth, firstGot>>

\* A fetcher position kept in the LazyList and shared by its generators: the
\* furthest page any of them is bound to.
FetcherShared(g) ==
    CHOOSE p \in {iters[k].page : k \in {j \in Iterators : iters[j].coll = g.coll}} :
        \A k \in {j \in Iterators : iters[j].coll = g.coll} : iters[k].page <= p

\* The page the generator of LazyList.__iter__ fetches from when its buffer
\* is empty: the local variable fetcher.
FetcherOf(g) == g.page

\* One resumption of the generator of LazyList.__iter__: yield the next
\* record of the current page; when the page is exhausted, call the fetcher
\* (Many.__make_fetcher: _rest_call with fetch_all=False, then
\* __sanitize_data), bind the next fetcher to the continuation reference, and
\* go on with the new page; stop when there is no fetcher.
RECURSIVE Pull(_, _, _, _, _, _)
Pull(chain, rel, key, auth, n, buf) ==
    IF buf # <<>>
    THEN [reqs |-> <<>>, item |-> Head(buf), buf |-> Tail(buf), page |-> n,
          state |-> "running", err |-> ""]
    ELSE IF n = 0
    THEN [reqs |-> <<>>, item |-> 0, buf |-> <<>>, page |-> 0,
          state |-> "done", err |-> "StopIteration"]
    ELSE IF ~chain[n].ok
    THEN [reqs |-> <<Request("GET", rel, key, n, auth, EmptyDict)>>, item |-> 0,
          buf |-> <<>>, page |-> n, state |-> "failed",
          err |-> "ServerResponseError"]
    ELSE LET rest == Pull(chain, rel, key, auth,
                          IF chain[n].more THEN n + 1 ELSE 0, chain[n].items)
         IN [rest EXCEPT !.reqs = <<Request("GET", rel, key, n, auth, EmptyDict)>> \o @]

Pages(reqs) == [k \in 1..Len(reqs) |-> reqs[k].url.page]

\* next(generator).  The generator yields wrapper(record), the instance
\* Mapper builds; the history keeps the record.
IterNext(it, chain) ==
    /\ iters[it].state = "running"
    /\ LET g == iters[it]
           c == colls[g.coll]
           res == Pull(chain, c.rel, c.key, InstAuth(inst[c.owner]), FetcherOf(g), g.buf)
       IN /\ Agrees(chain, c.rel, c.key)
          /\ served' = Serve(res.reqs, chain)
          /\ iters' = [iters EXCEPT ![it] =
                          [coll |-> g.coll, page |-> res.page, buf |-> res.buf,
                           state |-> res.state,
                           got |-> IF res.err = "" THEN Append(g.got, res.item)
                                   ELSE g.got,
                           asked |-> g.asked \o Pages(res.reqs)]]
          /\ last' = Ran("next", c.owner, c.rel, res.err, res.reqs, res.item)
    /\ UNCHANGED <<inst, colls, manyCache, foreignCache, typeAuth, firstGot>>

\* ------------------------------------------------------ specification
\* A chain for the handlers that request no page.
NoPages == [n \in 1..MaxPages |->
               [ok |-> FALSE, nobody |-> TRUE, items |-> <<>>, more |-> FALSE]]

\* The instances a program makes itself: constructed, or read.
NewOwner ==
    /\ Len(inst) < MaxOwners
    /\ \/ New("Post", Dict(1, Absent, Absent))
       \/ \E v \in Vals, r \in PlainResponses : Read("Post", <<v>>, 0, r)

Init ==
    /\ inst = <<>>
    /\ colls = <<>>
    /\ manyCache = [rel \in ManyRels |-> [i \in 1..MaxInst |-> 0]]
    /\ foreignCache = [rel \in ForeignRels |-> [i \in 1..MaxInst |-> 0]]
    /\ served = {}
    /\ iters = <<>>
    /\ typeAuth = 0
    /\ firstGot = {}
    /\ last = NoLast

\* The resource protocol of the instances the application constructs or reads.
Next ==
    \/ NewOwner
    \/ \E i \in Instances, r \in PlainResponses : ReadAttr(i, "name", r)
    \/ \E i \in Instances, v \in Vals : WriteAttr(i, "id", v)
    \/ \E i \in Instances : WriteAttr(i, "name", 2)
    \/ \E i \in Instances, w \in {"_pk_vals", "_footprint"}, r \in PlainResponses :
          ReadKey(i, w, r)
    \/ \E i \in Instances, keys \in SUBSET {"id", "name"}, r \in PlainResponses :
          Patch(i, TRUE, keys, 0, r)
    \/ \E i \in Instances, r \in PlainResponses : Patch(i, FALSE, {}, 0, r)
    \/ \E i \in Instances, ser \in BOOLEAN, r \in PlainResponses : Put(i, ser, 0, r)
    \/ \E i \in Instances, r \in PlainResponses : Delete(i, 0, r)
    \/ \E i \in Instances, r \in PlainResponses : ManyGet(i, "feed", r, NoPages)
    \/ \E i \in Instances, r \in PlainResponses : ForeignGet(i, "editor", r)

Spec == Init /\ [][Next]_vars

\* Eager collections over paginated endpoints.
PageNext ==
    \/ NewOwner
    \/ \E i \in Instances, r \in PlainResponses, chain \in Chains :
          ManyGet(i, "comments", r, chain)
    \/ \E c \in Collections, k \in 1..MaxPages : GetItem(c, k)

PageSpec == Init /\ [][PageNext]_vars

\* Lazy collections over paginated endpoints.
LazyNext ==
    \/ NewOwner
    \/ \E i \in Instances, r \in PlainResponses : ManyGet(i, "feed", r, NoPages)
    \/ \E c \in Collections : IterStart(c)
    \/ \E it \in Iterators, chain \in Chains : IterNext(it, chain)

LazySpec == Init /\ [][LazyNext]_vars

\* One page with one record, and nothing after it.
OnePage == [n \in 1..MaxPages |->
               [ok |-> TRUE, nobody |-> FALSE, items |-> <<n>>, more |-> FALSE]]

Posts == {i \in Instances : IsInstance(inst[i].cls, "Post")}

\* The owners of the relation runs: posts whose data carries the nested
\* mapping of the embedded relation, read or constructed.
RelOwner(max) ==
    /\ Cardinality(Posts) < max
    /\ \/ New("Post", Dict(1, Absent, 1))
       \/ \E r \in RelResponses : Read("Post", <<1>>, 0, r)

\* Relations and their caches, over owners that may carry the same key.
RelNext ==
    \/ RelOwner(MaxPosts)
    \/ \E i \in Instances : ManyGet(i, "comments", RelBody, OnePage)
    \/ \E i \in Instances : ManyGet(i, "feed", RelBody, NoPages)
    \/ \E i \in Instances, rel \in ForeignRels : ForeignGet(i, rel, RelBody)
    \/ \E i \in Instances, r \in RelResponses : Patch(i, FALSE, {}, 0, r)

RelSpec == Init /\ [][RelNext]_vars

\* The keys of an owner and of the instances its relations produce.
KeyNext ==
    \/ RelOwner(MaxOwners)
    \/ \E i \in Instances : ManyGet(i, "comments", RelBody, OnePage)
    \/ \E c \in Collections, k \in 1..MaxPages : GetItem(c, k)
    \/ \E i \in Instances, rel \in ForeignRels : ForeignGet(i, rel, RelBody)
    \/ \E i \in Instances, w \in {"_pk_vals", "_footprint"}, r \in RelResponses :
          ReadKey(i, w, r)
    \/ \E i \in Instances, v \in Vals : WriteAttr(i, "id", v)

KeySpec == Init /\ [][KeyNext]_vars

\* Auth objects on the type, on the instances and at the call sites.
AuthNext ==
    \/ /\ Cardinality(Posts) < MaxOwners
       /\ \/ New("Post", Dict(1, Absent, 1))
          \/ \E a \in {0} \cup Auths, r \in RelResponses : Read("Post", <<1>>, a, r)
    \/ \E a \in {0} \cup Auths : EnableAuth(a)
    \/ \E i \in Instances, a \in Auths : WriteAuth(i, a)
    \/ \E i \in Instances : ForeignGet(i, "author", RelBody)
    \/ \E i \in Instances, a \in {0} \cup Auths, r \in RelResponses :
          Patch(i, FALSE, {}, a, r)
    \/ \E i \in Instances, a \in {0} \cup Auths, r \in RelResponses :
          Put(i, TRUE, a, r)
    \/ \E i \in Instances, a \in {0} \cup Auths, r \in RelResponses :
          Delete(i, a, r)

AuthSpec == Init /\ [][AuthNext]_vars

\* The key tuples an application may pass or assign: of the length of a
\* type's _pk, shorter, or longer.
KeyTuples == UNION {[1..n -> Vals] : n \in 0..Len(PkOf("Comment"))}

\* Instances read by key arguments or constructed, and their key values
\* read and assigned.
ArityNext ==
    \/ /\ Len(inst) < MaxOwners
       /\ \/ \E cls \in {"Post", "Comment"} : New(cls, Dict(1, Absent, Absent))
          \/ \E cls \in {"Post", "Comment"}, args \in KeyTuples,
                r \in PlainResponses \cup {RelBody} : Read(cls, args, 0, r)
    \/ \E i \in Instances, value \in KeyTuples : WritePkVals(i, value)
    \/ \E i \in Instances, w \in {"_pk_vals", "_footprint"}, r \in PlainResponses :
          ReadKey(i, w, r)

AritySpec == Init /\ [][ArityNext]_vars

\* Writes of public and of private attributes, and attribute-miss fetches.
TrackNext ==
    \/ NewOwner
    \/ \E i \in Instances, r \in PlainResponses : ReadAttr(i, "name", r)
    \/ \E i \in Instances, n \in {"id", "name", "__author"} : WriteAttr(i, n, 1)
    \/ \E i \in Instances : WriteAuth(i, 1)

TrackSpec == Init /\ [][TrackNext]_vars

\* Instances of a type, of its subtype and of another type, compared.
EqNext ==
    \/ /\ Len(inst) < MaxPosts
       /\ \/ \E cls \in {"Post", "Draft", "Comment"}, v \in Vals :
                New(cls, Dict(v, Absent, Absent))
          \/ \E cls \in {"Post", "Draft"}, r \in PlainResponses :
                Read(cls, <<1>>, 0, r)
    \/ \E a, b \in Instances, ra, rb \in PlainResponses : Eq(a, b, ra, rb)

EqSpec == Init /\ [][EqNext]_vars

\* The bounds an application slices a collection with: inside the
\* collection, past its end, and before its start.
SliceBounds == (0 - MaxPages - 1)..MaxPages

\* Eager collections read by index, by slice and by iteration.
WrapNext ==
    \/ NewOwner
    \/ \E i \in Instances, r \in PlainResponses, chain \in Chains :
          ManyGet(i, "comments", r, chain)
    \/ \E c \in Collections, k \in 1..MaxPages : GetItem(c, k)
    \/ \E c \in Collections, i, j \in SliceBounds : GetSlice(c, i, j)
    \/ \E c \in Collections : IterWrapped(c)

WrapSpec == Init /\ [][WrapNext]_vars

\* The keys of the instances an owner's relations produce, for target types
\* with two and with three key fields.
OwnedNext ==
    \/ RelOwner(MaxOwners)
    \/ \E i \in Instances, rel \in {"comments", "replies"} :
          ManyGet(i, rel, RelBody, OnePage)
    \/ \E c \in Collections, k \in 1..MaxPages : GetItem(c, k)
    \/ \E i \in Instances : ForeignGet(i, "author", RelBody)
    \/ \E i \in Instances, w \in {"_pk_vals", "_footprint"}, r \in RelResponses :
          ReadKey(i, w, r)

OwnedSpec == Init /\ [][OwnedNext]_vars

\* Updates of a resource that may refuse a PATCH or a PUT while it answers
\* a GET.
RetryNext ==
    \/ NewOwner
    \/ \E i \in Instances, n \in {"id", "name"} : WriteAttr(i, n, 2)
    \/ \E i \in Instances, g, r \in PlainResponses :
          PatchAnswered(i, FALSE, {}, 0, g, r)
    \/ \E i \in Instances, g, r \in PlainResponses :
          PatchAnswered(i, TRUE, {"name"}, 0, g, r)
    \/ \E i \in Instances, g, r \in PlainResponses : PutAnswered(i, TRUE, 0, g, r)

RetrySpec == Init /\ [][RetryNext]_vars

\* ------------------------------------------------------------ properties
\* C1 (Fetch-once): whatever body a 2xx response carries, a read of a missing
\* attribute on an Unfetched instance makes exactly one request and leaves the
\* instance Fetched when the attribute is still missing, and a read of a
\* missing attribute on a Fetched instance makes no request and raises
\* AttributeError.  Stated for instances whose key values are already known,
\* so that no request is made on the way to the path.
FetchOnce ==
    [][\A i \in Instances, r \in PlainResponses :
          (/\ r.ok
           /\ inst[i].d["name"] = Absent
           /\ inst[i].pk # <<>>
           /\ ReadAttr(i, "name", r))
          => /\ ~inst[i].fetched => Len(last'.reqs) = 1
             /\ inst[i].fetched => last'.reqs = <<>> /\ last'.err = "AttributeError"
             /\ inst'[i].d["name"] = Absent => inst'[i].fetched]_vars

\* C2 (Relation cache identity): an access of a Many or Foreign field that
\* returns, on an owner for which an earlier access of the field returned,
\* gives the object the first access gave and makes no request; and the
\* objects given to two distinct owners for the same field are distinct.
RelationCacheIdentity ==
    [][/\ \A g \in firstGot :
             (/\ last'.op \in {"many", "foreign"}
              /\ last'.err = ""
              /\ last'.name = g.rel
              /\ last'.i = g.i)
             => last'.ret = g.obj /\ last'.reqs = <<>>
       /\ \A g1, g2 \in firstGot' :
             g1.rel = g2.rel /\ g1.i # g2.i => g1.obj # g2.obj]_vars

\* The requests of a handler made with one method, and the fields a payload
\* carries.
Sent(reqs, method) == {k \in 1..Len(reqs) : reqs[k].method = method}
Fields(data) == {n \in DictNames : data[n] # Absent}

\* C3 (Patch minimality): the payload of update_with_patch called without a
\* subset carries exactly the fields of ChangedSet at call time, each with the
\* value the instance held at call time; and when the call returns, exactly
\* the fields of the payload it sent have left ChangedSet.
PatchMinimality ==
    [][last'.op = "patch" =>
          \A k \in Sent(last'.reqs, "PATCH") :
             /\ last'.name = "" =>
                   /\ Fields(last'.reqs[k].data) = inst[last'.i].changed
                   /\ \A n \in inst[last'.i].changed :
                         last'.reqs[k].data[n] = inst[last'.i].d[n]
             /\ last'.err = "" =>
                   inst'[last'.i].changed =
                      inst[last'.i].changed \ Fields(last'.reqs[k].data)]_vars

\* A PATCH returned after submitting some of the changed fields, and the
\* others are still in ChangedSet.
PatchedSome ==
    /\ last.op = "patch"
    /\ last.err = ""
    /\ \E k \in Sent(last.reqs, "PATCH") :
          /\ Fields(last.reqs[k].data) # {}
          /\ Fields(last.reqs[k].data) # last.before
    /\ inst[last.i].changed # {}

\* C4 (Put totality): after update_with_put returned, the instance's
\* ChangedSet is empty.
PutTotality ==
    (last.op = "put" /\ last.err = "") => inst[last.i].changed = {}

\* A PUT returned on an instance that had changed fields.
PutAfterChanges ==
    last.op = "put" /\ last.err = "" /\ last.before # {}

\* What the endpoint of a collection answered for page n, and the records of
\* its pages 1..m in page order.
Answer(rel, key, n) == (CHOOSE s \in served : s.url = PageUrl(rel, key, n)).resp

RECURSIVE Records(_, _, _)
Records(rel, key, m) ==
    IF m = 0 THEN <<>>
    ELSE Records(rel, key, m - 1) \o
         (IF Answer(rel, key, m).ok THEN Answer(rel, key, m).items ELSE <<>>)

\* C5 (Lazy on-demand fetching): resolving a lazy Many relation makes no
\* request; a generator that has yielded k records has requested pages 1..m
\* in order, where page m is the one the k-th record lies on, and holds the
\* rest of page m; a failing page m raises only after every record of pages
\* 1..m-1 was yielded.
LazyOnDemand ==
    /\ (last.op = "many" /\ RelLazy(last.name)) => last.reqs = <<>>
    /\ \A it \in Iterators :
          LET g == iters[it]
              c == colls[g.coll]
              m == Len(g.asked)
          IN /\ g.asked = [k \in 1..m |-> k]
             /\ g.got \o g.buf = Records(c.rel, c.key, m)
             /\ (g.state = "running" /\ m >= 1) =>
                   Len(g.got) > Len(Records(c.rel, c.key, m - 1))
             /\ g.state = "failed" =>
                   /\ ~Answer(c.rel, c.key, m).ok
                   /\ g.got = Records(c.rel, c.key, m - 1)

IsPrefix(a, b) == Len(a) <= Len(b) /\ SubSeq(b, 1, Len(a)) = a

\* C6 (Lazy restartability and independence): every generator over a lazy
\* collection requests the pages from the first one on, in order; of two
\* generators over the same collection, the records and the page requests of
\* the one that is less far are a prefix of those of the other, however their
\* steps were interleaved.
LazyIndependence ==
    \A a, b \in Iterators :
       iters[a].coll = iters[b].coll =>
          /\ iters[a].asked = [k \in 1..Len(iters[a].asked) |-> k]
          /\ IsPrefix(iters[a].got, iters[b].got) \/ IsPrefix(iters[b].got, iters[a].got)
          /\ IsPrefix(iters[a].asked, iters[b].asked)
                \/ IsPrefix(iters[b].asked, iters[a].asked)
          /\ Len(iters[a].got) < Len(iters[b].got) =>
                IsPrefix(iters[a].asked, iters[b].asked)

\* Two generators over one collection: one has passed the first page, the
\* other has yielded the first record only.
TwoGenerators ==
    \E a, b \in Iterators :
       /\ a # b
       /\ iters[a].coll = iters[b].coll
       /\ Len(iters[a].got) = 2
       /\ Len(iters[b].got) = 1
       /\ iters[b].state = "running"
       /\ Len(iters[b].asked) = 1

\* The page requests a handler made on the endpoint of a relation.
PageRequests(reqs, rel) == SelectSeq(reqs, LAMBDA q : q.url.path = rel)

\* C7 (Eager pagination): an eager resolution that requests pages and does
\* not fail on a status requests pages 1..m in order, one request each, every
\* page before m carrying a continuation reference and page m none; when it
\* returns, the collection holds the records of pages 1..m in page order.
EagerPagination ==
    LET P == PageRequests(last.reqs, last.name)
        m == Len(P)
    IN (/\ last.op = "many"
        /\ ~RelLazy(last.name)
        /\ last.err \in {"", "TypeError"}
        /\ P # <<>>)
       => /\ Pages(P) = [k \in 1..m |-> k]
          /\ \A k \in 1..m :
                /\ Answer(last.name, P[k].url.key, k).ok
                /\ Answer(last.name, P[k].url.key, k).more <=> k < m
          /\ last.err = "" =>
                [k \in 1..Len(colls[last.ret].items) |-> colls[last.ret].items[k].raw]
                   = Records(last.name, P[1].url.key, m)

\* An eager resolution returned the records of two pages, [1] then [2].
EagerTwoPages ==
    /\ last.op = "many"
    /\ last.err = ""
    /\ Len(PageRequests(last.reqs, last.name)) = 2
    /\ [k \in 1..Len(colls[last.ret].items) |-> colls[last.ret].items[k].raw] = <<1, 2>>

\* C8 (No partial success in eager pagination): when a page an eager
\* resolution requested answered with a non-2xx status, the resolution raised
\* ServerResponseError and returned nothing, the failing page is the last one
\* it requested, and the owner has no cache entry.
EagerNoPartial ==
    LET P == PageRequests(last.reqs, last.name)
    IN (/\ last.op = "many"
        /\ ~RelLazy(last.name)
        /\ \E k \in 1..Len(P) : ~Answer(last.name, P[k].url.key, P[k].url.page).ok)
       => /\ last.err = "ServerResponseError"
          /\ last.ret = 0
          /\ \A k \in 1..Len(P) :
                ~Answer(last.name, P[k].url.key, P[k].url.page).ok => k = Len(P)
          /\ manyCache[last.name][last.i] = 0

\* An eager resolution failed on its second page, after a page of records.
EagerFailedLater ==
    /\ last.op = "many"
    /\ last.err = "ServerResponseError"
    /\ Len(PageRequests(last.reqs, last.name)) = 2
    /\ Answer(last.name, last.reqs[Len(last.reqs)].url.key, 1).items # <<>>

\* C9 (Key inheritance): the PKValues of an instance that has an owner,
\* without their last element, are the owner's PKValues truncated to
\* len(PrimaryKeyFields) - 1 entries: for the computed key values of every
\* instance, and for the tuple a read of _pk_vals returns.
KeyInheritance ==
    /\ \A i \in Instances :
          (inst[i].owner # 0 /\ inst[i].pk # <<>>) =>
             SubSeq(inst[i].pk, 1, Len(inst[i].pk) - 1)
                = Slice(inst[inst[i].owner].pk, Len(PkOf(inst[i].cls)) - 1)
    /\ (/\ last.op = "_pk_vals"
        /\ last.err = ""
        /\ inst[last.i].owner # 0)
       => SubSeq(last.keys, 1, Len(last.keys) - 1)
             = Slice(inst[inst[last.i].owner].pk, Len(PkOf(inst[last.i].cls)) - 1)

\* The key values of an instance produced by a Many relation and of one
\* produced by an embedded Foreign relation were computed, the owner's key
\* field having been written since.
OwnedKeys ==
    \E i, j \in Instances :
       /\ inst[i].cls = "Comment" /\ inst[i].owner # 0 /\ inst[i].pk # <<>>
       /\ inst[j].cls = "Author" /\ inst[j].owner # 0 /\ inst[j].pk # <<>>
       /\ "id" \in inst[inst[i].owner].changed

\* C10 (Footprint and PKValues stability): the computed PKValues and
\* Footprint of an instance are never changed by any step, and a read of
\* either returns the computed value.
KeyStability ==
    [][\A i \in Instances :
          /\ inst[i].pk # <<>> => inst'[i].pk = inst[i].pk
          /\ inst[i].fp # <<>> => inst'[i].fp = inst[i].fp
          /\ (last'.op = "_pk_vals" /\ last'.i = i /\ last'.err = "") =>
                last'.keys = inst'[i].pk
          /\ (last'.op = "_footprint" /\ last'.i = i /\ last'.err = "") =>
                last'.keys = inst'[i].fp]_vars

\* The key values of an Unfetched instance were read again after its key
\* field was written to another value.
KeysReadAfterWrite ==
    /\ last.op = "_pk_vals"
    /\ last.err = ""
    /\ ~inst[last.i].fetched
    /\ "id" \in inst[last.i].changed
    /\ inst[last.i].d["id"] # Last(last.keys)

\* C11 (Key resolution without network): a read of PKValues or Footprint on
\* an instance whose own last key field is present in its attributes makes no
\* request, whether the instance is owned or not, Fetched or Unfetched.
KeyResolutionOffline ==
    [][\A i \in Instances, w \in {"_pk_vals", "_footprint"}, r \in PlainResponses :
          (/\ inst[i].d[Last(PkOf(inst[i].cls))] # Absent
           /\ ReadKey(i, w, r))
          => last'.reqs = <<>>]_vars

\* The auth the precedence call-site, instance, type gives a request.
Precedence(a, rec) ==
    IF a # 0 THEN a
    ELSE IF rec.auth # <<>> /\ rec.auth[1] # 0 THEN rec.auth[1]
    ELSE typeAuth

\* C12 (Auth precedence): every request update_with_patch, update_with_put
\* and delete send with their own method carries the call-site auth when one
\* is given, else the instance's own auth when one is set, else the type's
\* default, else none.
AuthPrecedence ==
    [][\A i \in Instances, a \in {0} \cup Auths, r \in RelResponses :
          /\ Patch(i, FALSE, {}, a, r) =>
                \A k \in Sent(last'.reqs, "PATCH") :
                   last'.reqs[k].auth = Precedence(a, inst[i])
          /\ Put(i, TRUE, a, r) =>
                \A k \in Sent(last'.reqs, "PUT") :
                   last'.reqs[k].auth = Precedence(a, inst[i])
          /\ Delete(i, a, r) =>
                \A k \in Sent(last'.reqs, "DELETE") :
                   last'.reqs[k].auth = Precedence(a, inst[i])]_vars

\* C13 (Read result): for every type, every tuple of key arguments of the
\* length of its key fields and every 2xx response, Read makes one GET of the
\* path of these keys; it returns nothing and makes no instance when the body
\* is empty; else it returns a new instance whose attributes are the fields
\* of the body (a field named like a Foreign relation of the type kept under
\* "__" and its name), whose PKValues are the key arguments, which is Fetched
\* and whose ChangedSet is empty.
ReadResult ==
    [][\A cls \in {"Post", "Comment"}, args \in KeyTuples,
         r \in PlainResponses \cup {RelBody} :
          (/\ last'.op = "read"
           /\ r.ok
           /\ Len(args) = Len(PkOf(cls))
           /\ Read(cls, args, 0, r))
          => /\ Len(last'.reqs) = 1
             /\ last'.reqs[1].method = "GET"
             /\ last'.reqs[1].url = [path |-> cls, key |-> args, page |-> 0]
             /\ last'.err = ""
             /\ r.nobody => last'.ret = 0 /\ inst' = inst
             /\ ~r.nobody =>
                   /\ last'.ret = Len(inst) + 1
                   /\ Len(inst') = Len(inst) + 1
                   /\ inst'[last'.ret].cls = cls
                   /\ \A n \in DictNames :
                         inst'[last'.ret].d[n] =
                            IF cls = "Post" /\ n = "__author" THEN r.body["author"]
                            ELSE IF cls = "Post" /\ n = "author" THEN Absent
                            ELSE r.body[n]
                   /\ inst'[last'.ret].pk = args
                   /\ inst'[last'.ret].fetched
                   /\ inst'[last'.ret].changed = {}]_vars

\* Read returned an instance of a type with two key fields whose id
\* attribute differs from the last key argument.
ReadGaveInstance ==
    /\ last.op = "read"
    /\ last.ret # 0
    /\ inst[last.ret].cls = "Comment"
    /\ inst[last.ret].fetched
    /\ inst[last.ret].d["id"] # Last(inst[last.ret].pk)

\* C14 (Embedded Foreign resolution): the first access of the embedded
\* relation on an owner whose attributes hold the nested mapping under the
\* key property makes no request and returns a new instance of the target
\* type built from the mapping, with the owner's auth and the owner as its
\* Owner, and the relation's cache holds it for the owner.
EmbeddedResolution ==
    [][\A i \in Instances :
          (/\ inst[i].cls = "Post"
           /\ inst[i].d[RelKeyProperty("author")] # Absent
           /\ \A g \in firstGot : ~(g.rel = "author" /\ g.i = i)
           /\ ForeignGet(i, "author", RelBody))
          => /\ last'.reqs = <<>>
             /\ last'.err = ""
             /\ last'.ret = Len(inst) + 1
             /\ Len(inst') = Len(inst) + 1
             /\ inst'[Len(inst')].cls = RelModel("author")
             /\ inst'[Len(inst')].d =
                   Dict(inst[i].d[RelKeyProperty("author")], Absent, Absent)
             /\ inst'[Len(inst')].auth = <<InstAuth(inst[i])>>
             /\ inst'[Len(inst')].owner = i
             /\ foreignCache'["author"][i] = last'.ret]_vars

ChangeTracking ==
    [][/\ \A i \in 1..Len(inst') : \A n \in inst'[i].changed : ~IsPrivate(n)
       /\ \A i \in Instances, n \in {"id", "name", "__author"}, v \in {1} :
             (last'.op = "setattr" /\ last'.name = n /\ WriteAttr(i, n, v)) =>
                /\ inst'[i].d[n] = v
                /\ inst'[i].changed =
                      inst[i].changed \cup (IF n = "__author" THEN {} ELSE {n})
       /\ \A i \in Instances, a \in {1} :
             (last'.op = "setattr" /\ last'.name = "_auth" /\ WriteAuth(i, a)) =>
                inst'[i].changed = inst[i].changed
       /\ \A i \in Instances, r \in PlainResponses :
             (last'.op = "getattr" /\ ReadAttr(i, "name", r)) =>
                inst'[i].changed = inst[i].changed
       /\ (last'.op \in {"new", "read"} /\ last'.ret # 0) =>
             inst'[last'.ret].changed = {}]_vars

\* A private field was written on a Fetched instance that has a changed
\* public field.
PrivateWritten ==
    /\ last.op = "setattr"
    /\ last.name = "__author"
    /\ inst[last.i].fetched
    /\ inst[last.i].changed = {"name"}

\* The last key value _id resolves to.
Resolved(rec) ==
    IF rec.pk # <<>> THEN Last(rec.pk) ELSE rec.d[Last(PkOf(rec.cls))]

\* C17 (Equality): a == b is true only if a and b have the same concrete
\* type and the same resolved last key value, and whenever a == b and b == a
\* both give a result from the same state, they give the same one.
EqualityLaw ==
    [][\A a, b \in Instances, ra, rb \in PlainResponses :
          (last'.op = "eq" /\ last'.keys = <<a, b>> /\ Eq(a, b, ra, rb)) =>
             /\ last'.ret = 1 =>
                   /\ inst[a].cls = inst[b].cls
                   /\ Resolved(inst'[a]) = Resolved(inst'[b])
             /\ (last'.err = "" /\ Equals(Heap, b, a, rb, ra).err = "") =>
                   (last'.ret = 1 <=> Equals(Heap, b, a, rb, ra).ret[1])]_vars

\* An instance of a type was compared with an instance of its subtype that
\* has the same key value, and with an equal instance of its own type.
EqComparedSubtype ==
    /\ last.op = "eq"
    /\ last.err = ""
    /\ Len(last.keys) = 2
    /\ inst[last.keys[1]].cls = "Post"
    /\ inst[last.keys[2]].cls = "Draft"
    /\ Resolved(inst[last.keys[1]]) = Resolved(inst[last.keys[2]])

\* C18 (Fetch state machine): a read of a missing attribute on an Unfetched
\* instance whose request is answered with a 2xx status leaves the instance
\* Fetched, and one answered with another status leaves it Unfetched and
\* raises ServerResponseError; and no step moves a Fetched instance back to
\* Unfetched.
FetchStateMachine ==
    [][/\ \A i \in Instances : inst[i].fetched => inst'[i].fetched
       /\ \A i \in Instances, r \in PlainResponses :
             (/\ ~inst[i].fetched
              /\ inst[i].d["name"] = Absent
              /\ ReadAttr(i, "name", r)
              /\ last'.reqs # <<>>)
             => /\ r.ok => inst'[i].fetched
                /\ ~r.ok => ~inst'[i].fetched /\ last'.err = "ServerResponseError"]_vars

\* C19 (Patch subset restriction): for every subset given to
\* update_with_patch, the empty one included, the payload of the PATCH it
\* sends carries exactly the fields of the subset that are in ChangedSet, and
\* the changed fields outside the subset stay in ChangedSet.
PatchSubset ==
    [][\A i \in Instances, keys \in SUBSET {"id", "name"}, r \in PlainResponses :
          Patch(i, TRUE, keys, 0, r) =>
             /\ \A k \in Sent(last'.reqs, "PATCH") :
                   Fields(last'.reqs[k].data) = keys \cap inst[i].changed
             /\ (inst[i].changed \ keys) \subseteq inst'[i].changed]_vars

\* C20 (Key arity check): assigning PKValues a tuple whose length differs
\* from the number of key fields raises the arity error (ValueError) at the
\* assignment and leaves the instance, its PKValues included, as it was; a
\* tuple of the right length is taken; and a Read with more key arguments
\* than key fields fails with the same error and returns no instance.
KeyArity ==
    [][/\ \A i \in Instances, value \in KeyTuples :
             (last'.op = "setkeys" /\ WritePkVals(i, value)) =>
                IF Len(value) = Len(PkOf(inst[i].cls))
                THEN last'.err = "" /\ inst'[i].pk = value
                ELSE last'.err = "ValueError" /\ inst'[i] = inst[i]
       /\ \A cls \in {"Post", "Comment"}, args \in KeyTuples,
             r \in PlainResponses \cup {RelBody} :
             (/\ last'.op = "read"
              /\ r.ok /\ ~r.nobody
              /\ Len(args) > Len(PkOf(cls))
              /\ Read(cls, args, 0, r))
             => last'.err = "ValueError" /\ last'.ret = 0 /\ inst' = inst]_vars

\* An assignment of a tuple that is too long failed on an instance whose
\* key values had been computed.
KeyAssignmentRefused ==
    /\ last.op = "setkeys"
    /\ last.err = "ValueError"
    /\ Len(last.keys) > Len(PkOf(inst[last.i].cls))
    /\ inst[last.i].pk # <<>>

\* C21 (Single explicit key assignment): an assignment to PKValues of an
\* instance whose PKValues are already set, by an earlier assignment, by Read
\* or by a lazy computation, leaves the instance's PKValues as they were.
SingleKeyAssignment ==
    [][\A i \in Instances, value \in KeyTuples :
          (/\ last'.op = "setkeys"
           /\ inst[i].pk # <<>>
           /\ WritePkVals(i, value))
          => inst'[i].pk = inst[i].pk]_vars

\* C22 (Eager collection wrap-once): no step changes the length of an eager
\* collection's backing store or the record at any of its positions; an
\* element access returns the instance stored at the position, wrapping a raw
\* record and storing the instance in its place first; a slice access does
\* so for every position of the slice and touches no other position; a full
\* iteration yields an instance for every position, the stored one where
\* there is one, and leaves the backing store as it was.
WrapOnce ==
    [][\A c \in Collections :
          colls[c].kind = "wrapped" =>
             LET s == colls[c].items
                 len == Len(s)
             IN /\ Len(colls'[c].items) = len
                /\ \A k \in 1..len : colls'[c].items[k].raw = s[k].raw
                /\ \A k \in 1..len :
                      (last'.op = "getitem" /\ GetItem(c, k)) =>
                         /\ last'.ret # 0
                         /\ ~IsRaw(s[k]) => last'.ret = s[k].inst
                         /\ IsRaw(s[k]) => last'.ret \notin Instances
                         /\ colls'[c].items[k].inst = last'.ret
                         /\ \A m \in 1..len : m # k => colls'[c].items[m] = s[m]
                /\ \A i, j \in SliceBounds :
                      (last'.op = "getslice" /\ last'.ret = c /\ GetSlice(c, i, j)) =>
                         LET lo == Low(Adjusted(i, len), len)
                             hi == High(lo, Adjusted(j, len), len)
                         IN /\ Len(last'.keys) = hi - lo
                            /\ \A k \in 1..(hi - lo) :
                                  /\ last'.keys[k] # 0
                                  /\ ~IsRaw(s[lo + k]) => last'.keys[k] = s[lo + k].inst
                                  /\ IsRaw(s[lo + k]) => last'.keys[k] \notin Instances
                                  /\ colls'[c].items[lo + k].inst = last'.keys[k]
                            /\ \A m \in 1..len :
                                  (m <= lo \/ m > hi) => colls'[c].items[m] = s[m]
                /\ (last'.op = "iterate" /\ last'.ret = c /\ IterWrapped(c)) =>
                      /\ colls' = colls
                      /\ Len(last'.keys) = len
                      /\ \A k \in 1..len :
                            /\ last'.keys[k] # 0
                            /\ ~IsRaw(s[k]) => last'.keys[k] = s[k].inst
                            /\ IsRaw(s[k]) => last'.keys[k] \notin Instances]_vars

\* C23 (Non-embedded Foreign resolution): the first access of the fetched
\* relation on an owner whose attributes hold the key property makes exactly
\* one request to the target type's path and, unless the server refuses it,
\* returns a new instance of the target type whose Owner is the owning
\* instance, and the relation's cache holds it for the owner; a later access
\* returns the cached instance and makes no request.
ForeignFetched ==
    [][\A i \in Instances, r \in PlainResponses :
          (/\ last'.op = "foreign"
           /\ last'.name = "editor"
           /\ inst[i].d[RelKeyProperty("editor")] # Absent
           /\ ForeignGet(i, "editor", r))
          => IF foreignCache["editor"][i] # 0
             THEN /\ last'.reqs = <<>>
                  /\ last'.err = ""
                  /\ last'.ret = foreignCache["editor"][i]
             ELSE /\ Cardinality({k \in 1..Len(last'.reqs) :
                                     last'.reqs[k].url.path = RelModel("editor")}) = 1
                  /\ last'.err \in {"", "ServerResponseError"}
                  /\ last'.err = "" =>
                        /\ last'.ret = Len(inst) + 1
                        /\ Len(inst') = Len(inst) + 1
                        /\ inst'[last'.ret].cls = RelModel("editor")
                        /\ inst'[last'.ret].owner = i
                        /\ foreignCache'["editor"][i] = last'.ret]_vars

\* C24 (PKValues arity invariant): the PKValues of every instance, once
\* computed or assigned, have exactly as many entries as the instance's type
\* has key fields.
KeyArityInvariant ==
    \A i \in Instances :
       inst[i].pk # <<>> => Len(inst[i].pk) = Len(PkOf(inst[i].cls))

\* C25 (Failed update leaves local state unchanged): an update_with_patch
\* or update_with_put that fails with ServerResponseError leaves the
\* instance's attribute values and ChangedSet as they were before the call.
FailedUpdateFrame ==
    [][\A i \in Instances, g, r \in PlainResponses :
          /\ \A given \in BOOLEAN :
                (/\ last'.op = "patch"
                 /\ last'.err = "ServerResponseError"
                 /\ PatchAnswered(i, given, IF given THEN {"name"} ELSE {}, 0, g, r))
                => /\ inst'[i].d = inst[i].d
                   /\ inst'[i].changed = inst[i].changed
          /\ (/\ last'.op = "put"
              /\ last'.err = "ServerResponseError"
              /\ PutAnswered(i, TRUE, 0, g, r))
             => /\ inst'[i].d = inst[i].d
                /\ inst'[i].changed = inst[i].changed]_vars

====
